---------------------------- MODULE Spec2Model ----------------------------
(***************************************************************************)
(* Tuneline frontend: the scrobble timeline.                               *)
(*                                                                         *)
(*   useScrobbleTimeline   hook: timeRange, loading, error, scrobbles,     *)
(*                         selectedScrobble, hoveredScrobble and the       *)
(*                         asynchronous fetchScrobbles                     *)
(*   ScrobbleTimelineView  shows spinner / error / timeline / empty state  *)
(*   MUIScrobbleTimeline   paginated timeline (currentPage, totalPages)    *)
(*   MUITimeRangeSelector  presets and date pickers that set the range     *)
(*   TimeRangeSelector     presets and plain date inputs that set the range*)
(*   ScrobbleTimeline      horizontal timeline: width and positions        *)
(*                                                                         *)
(* Spec is the timeline view as a whole, ComponentSpec the components      *)
(* ScrobbleTimeline and ScrobbleList rendered on their own, PagerSpec the  *)
(* component MUIScrobbleTimeline rendered on its own, RangeSpec the hook   *)
(* with both range selectors while the clock advances.                     *)
(*                                                                         *)
(* Time is counted in ticks; HourMs ticks make one hour, so that           *)
(* 23:59:59.999 of a day is the last tick of that day.                     *)
(***************************************************************************)
EXTENDS Integers, Sequences, FiniteSets, TLC

VARIABLES
    timeRange,          \* hook state: [start, end]
    loading,            \* hook state
    error,              \* hook state: a message or NoError
    scrobbles,          \* hook state / component prop: sequence of scrobbles
    selectedScrobble,   \* hook state: a scrobble or Null
    hoveredScrobble,    \* hook state: a scrobble or Null
    fetches,            \* every fetchScrobbles call started so far, with its position
    currentPage,        \* MUIScrobbleTimeline state
    startDate,          \* MUITimeRangeSelector state (start picker)
    endDate,            \* MUITimeRangeSelector state (end picker)
    timelineWidth,      \* ScrobbleTimeline state
    positionedScrobbles,\* ScrobbleTimeline state
    timeMarkers,        \* ScrobbleTimeline state
    scrollLeft,         \* ScrobbleTimeline: where its container was scrolled to
    scrolledRow,        \* ScrobbleList: the row scrolled into view, -1 for none
    effectPending,      \* ScrobbleTimeline: its layout effect has yet to run
    now,                \* the clock: what new Date() returns
    typedPage           \* page input: the text typed since it got the focus

hookVars   == <<timeRange, loading, error, scrobbles, selectedScrobble,
                hoveredScrobble, fetches>>
pickerVars == <<startDate, endDate>>
layoutVars == <<timelineWidth, positionedScrobbles, timeMarkers, effectPending>>
scrollVars == <<scrollLeft, scrolledRow>>
envVars    == <<now, typedPage, scrollLeft, scrolledRow>>
vars       == <<timeRange, loading, error, scrobbles, selectedScrobble,
                hoveredScrobble, fetches, currentPage, startDate, endDate,
                timelineWidth, positionedScrobbles, timeMarkers, scrollLeft,
                scrolledRow, effectPending, now, typedPage>>

-----------------------------------------------------------------------------
(* Bounds of the model *)

HourMs == 1         \* ticks per hour
Today == 10         \* index of the current day
NowHour == 15       \* hour of the day at which the session runs
MaxFetches == 2     \* fetchScrobbles calls started in one behaviour
LongLen == 60       \* length of the long server response
MaxEvents == 15     \* event counts 0..MaxEvents tried by the layout
MaxSpanDays == 8    \* longest range tried by the layout, in days

-----------------------------------------------------------------------------
(* Values *)

Null == "null"                                 \* error: no message
NoScrobble == [id |-> 0, listened_at |-> 0]    \* selected / hovered: null

DayMs == 24 * HourMs

\* the instant at which the session starts
Now == Today * DayMs + NowHour * HourMs

Max2(a, b) == IF a >= b THEN a ELSE b
Min2(a, b) == IF a <= b THEN a ELSE b

\* JavaScript division of two integers, truncated towards zero
TruncDiv(a, b) ==
    IF a >= 0 THEN a \div b ELSE -((-a) \div b)

\* Math.ceil(a / b) for a >= 0, b > 0
CeilDiv(a, b) == (a + b - 1) \div b

startOfDay(t) == (t \div DayMs) * DayMs
endOfDay(t)   == (t \div DayMs) * DayMs + DayMs - 1

Scrobble(i, t) == [id |-> i, listened_at |-> t]

-----------------------------------------------------------------------------
(* useScrobbleTimeline: what a fetch does with the server's response *)

\* [...response.data.scrobbles].sort((a, b) => b.listened_at - a.listened_at):
\* newest first; Array.prototype.sort is stable, so entries of one timestamp keep
\* the order of the response
sortedScrobbles(data) ==
    LET n == Len(data)
        before(j, i) ==
            \/ data[j].listened_at > data[i].listened_at
            \/ data[j].listened_at = data[i].listened_at /\ j < i
        rank == [i \in 1..n |-> Cardinality({j \in 1..n : before(j, i)}) + 1]
    IN  [p \in 1..n |-> data[CHOOSE i \in 1..n : rank[i] = p]]

\* self.findIndex((s) => s.id === id), counted from 1; 0 when there is none
findIndex(self, id) ==
    IF \E j \in 1..Len(self) : self[j].id = id
    THEN CHOOSE j \in 1..Len(self) :
            /\ self[j].id = id
            /\ \A k \in 1..(j - 1) : self[k].id # id
    ELSE 0

uniqueScrobbles_KeepAll(sorted) == sorted

\* sortedScrobbles.filter((scrobble, index, self) =>
\*     index === self.findIndex((s) => s.id === scrobble.id))
uniqueScrobbles(sorted) ==
    LET kept == {i \in 1..Len(sorted) : i = findIndex(sorted, sorted[i].id)}
    IN  [p \in 1..Cardinality(kept) |->
            sorted[CHOOSE i \in kept : Cardinality({j \in kept : j <= i}) = p]]

\* the list setScrobbles receives for a response
Stored(data) == uniqueScrobbles(sortedScrobbles(data))

-----------------------------------------------------------------------------
(* What the server may answer *)

EmptyResponse == <<>>

\* unsorted, with repeated ids (one of them with two timestamps)
DupResponse ==
    << Scrobble(1, Now - 5 * HourMs), Scrobble(2, Now - 2 * HourMs),
       Scrobble(1, Now - 5 * HourMs), Scrobble(3, Now - 2 * HourMs),
       Scrobble(2, Now - 9 * HourMs) >>

\* oldest first, LongLen entries: more than one page
LongResponse == [i \in 1..LongLen |-> Scrobble(100 + i, Now - (LongLen - i) * HourMs)]

Responses == {EmptyResponse, DupResponse, LongResponse}

\* the list stored for each of them
StoredFor == [data \in Responses |-> Stored(data)]

NetworkError == "Network Error"
UserNotFound == "User not found"

-----------------------------------------------------------------------------
(* ScrobbleTimelineView and MUIScrobbleTimeline *)

username == "listener"

itemsPerPage == 25

\* Math.ceil(scrobbles.length / itemsPerPage)
totalPagesOf(list) == CeilDiv(Len(list), itemsPerPage)

totalPages == totalPagesOf(scrobbles)

\* scrobbles.slice(indexOfFirstItem, indexOfLastItem)
currentItemsOf_FullPagesOnly(list, page) ==
    IF page * itemsPerPage <= Len(list)
    THEN SubSeq(list, (page - 1) * itemsPerPage + 1, page * itemsPerPage)
    ELSE <<>>

currentItemsOf(list, page) ==
    LET indexOfLastItem  == page * itemsPerPage
        indexOfFirstItem == indexOfLastItem - itemsPerPage
    IN  SubSeq(list, indexOfFirstItem + 1, Min2(indexOfLastItem, Len(list)))

currentItems == currentItemsOf(scrobbles, currentPage)

\* {!loading && !error && scrobbles.length > 0 && <MUIScrobbleTimeline .../>}
Shown(l, e, list) == ~l /\ e = Null /\ Len(list) > 0

timelineShown == Shown(loading, error, scrobbles)

\* The page of the MUIScrobbleTimeline instance after a render: an instance that
\* stays mounted keeps its state, a new instance starts from useState(1).  With no
\* instance mounted the variable holds the value the next instance starts from.
PageAfter(wasShown, isShown, page) ==
    IF wasShown /\ isShown THEN page ELSE 1

-----------------------------------------------------------------------------
(* MUITimeRangeSelector: the ranges its handlers produce *)

\* timeRanges: Last 7 Days, Last 30 Days, Last 90 Days, Last Year
timeRanges == {7, 30, 90, 365}

\* the buttons the user clicks in a session of the whole view
ClickedRanges == {7, 30}

\* the dates the user picks in a date picker: a day, at the time of day of "now"
PickedDates == {Now - 3 * DayMs, Now + DayMs}

PresetRange_TimeOfDayKept(days) ==
    [start |-> now - days * DayMs, end |-> now]

\* end = today 23:59:59.999, start = `days` days earlier at 00:00:00.000
PresetRange(days) ==
    [start |-> startOfDay(now - days * DayMs), end |-> endOfDay(now)]

\* useScrobbleTimeline: subDays(new Date(), 7) .. new Date()
defaultTimeRange == [start |-> Now - 7 * DayMs, end |-> Now]

-----------------------------------------------------------------------------
(* Initial state: the view is mounted, the fetch effect has started the      *)
(* first fetch for the default range                                         *)

Fetch(range) == [range |-> range, pc |-> "post", data |-> <<>>]

InFlight(i) == fetches[i].pc \in {"post", "user", "get"}

Init ==
    /\ timeRange = defaultTimeRange
    /\ loading = TRUE
    /\ error = Null
    /\ scrobbles = <<>>
    /\ selectedScrobble = NoScrobble
    /\ hoveredScrobble = NoScrobble
    /\ fetches = <<Fetch(defaultTimeRange)>>
    /\ currentPage = 1
    /\ startDate = defaultTimeRange.start
    /\ endDate = defaultTimeRange.end
    /\ timelineWidth = 0
    /\ positionedScrobbles = <<>>
    /\ timeMarkers = <<>>
    /\ scrollLeft = [nan |-> FALSE, num |-> 0, den |-> 1]
    /\ scrolledRow = -1
    /\ effectPending = FALSE
    /\ now = Now
    /\ typedPage = <<>>

-----------------------------------------------------------------------------
(* setTimeRange and the fetch effect it triggers *)

\* onRangeChange(range): the hook stores the range; fetchScrobbles is rebuilt and
\* the effect calls it: setLoading(true), setError(null), first request sent.
\* The selector's effect copies the new range into its pickers.
setTimeRange(range) ==
    /\ username # ""
    /\ Len(fetches) < MaxFetches
    /\ timeRange' = range
    /\ loading' = TRUE
    /\ error' = Null
    /\ fetches' = Append(fetches, Fetch(range))
    /\ startDate' = range.start
    /\ endDate' = range.end
    /\ currentPage' = PageAfter(timelineShown, Shown(TRUE, Null, scrobbles), currentPage)
    /\ UNCHANGED <<scrobbles, selectedScrobble, hoveredScrobble, layoutVars, envVars>>

handleRangeClick(days) ==
    setTimeRange(PresetRange(days))

handleStartDateChange(date) ==
    LET start == startOfDay(date)
        end   == timeRange.end
    IN  IF start <= end
        THEN setTimeRange([start |-> start, end |-> end])
        ELSE /\ startDate' = date
             /\ UNCHANGED <<hookVars, currentPage, endDate, layoutVars, envVars>>

handleEndDateChange(date) ==
    LET end   == endOfDay(date)
        start == timeRange.start
    IN  IF end >= start
        THEN setTimeRange([start |-> start, end |-> end])
        ELSE /\ endDate' = date
             /\ UNCHANGED <<hookVars, currentPage, startDate, layoutVars, envVars>>

-----------------------------------------------------------------------------
(* fetchScrobbles: the three requests of one call, and how it ends *)

\* await scrobblesApi.fetchScrobbles(...) resolves
FetchPosted(i) ==
    /\ fetches[i].pc = "post"
    /\ fetches' = [fetches EXCEPT ![i].pc = "user"]
    /\ UNCHANGED <<timeRange, loading, error, scrobbles, selectedScrobble,
                   hoveredScrobble, currentPage, pickerVars, layoutVars, envVars>>

\* await userApi.getUserByLastfm(username) resolves with a user
UserFound(i) ==
    /\ fetches[i].pc = "user"
    /\ fetches' = [fetches EXCEPT ![i].pc = "get"]
    /\ UNCHANGED <<timeRange, loading, error, scrobbles, selectedScrobble,
                   hoveredScrobble, currentPage, pickerVars, layoutVars, envVars>>

\* await scrobblesApi.getScrobbles(...) resolves: sort, filter, setScrobbles,
\* and finally setLoading(false)
ScrobblesLoaded(i, data) ==
    /\ fetches[i].pc = "get"
    /\ fetches' = [fetches EXCEPT ![i].pc = "ok", ![i].data = data]
    /\ scrobbles' = StoredFor[data]
    /\ loading' = FALSE
    /\ currentPage' = PageAfter(timelineShown, Shown(FALSE, error, StoredFor[data]), currentPage)
    /\ UNCHANGED <<timeRange, error, selectedScrobble, hoveredScrobble,
                   pickerVars, layoutVars, envVars>>

\* a request rejects, or the user lookup has no data: catch sets the error,
\* finally setLoading(false)
FetchFailed(i, message) ==
    /\ InFlight(i)
    /\ message = UserNotFound => fetches[i].pc = "user"
    /\ fetches' = [fetches EXCEPT ![i].pc = "failed"]
    /\ error' = message
    /\ loading' = FALSE
    /\ currentPage' = PageAfter(timelineShown, Shown(FALSE, message, scrobbles), currentPage)
    /\ UNCHANGED <<timeRange, scrobbles, selectedScrobble, hoveredScrobble,
                   pickerVars, layoutVars, envVars>>

-----------------------------------------------------------------------------
(* MUIScrobbleTimeline: pagination buttons (disabled ones take no click) *)

Navigate(page) ==
    /\ currentPage' = page
    /\ UNCHANGED <<hookVars, pickerVars, layoutVars, envVars>>

\* setCurrentPage(1)
goToFirstPage ==
    /\ timelineShown
    /\ currentPage # 1
    /\ Navigate(1)

\* setCurrentPage(prev => Math.max(prev - 1, 1))
goToPreviousPage ==
    /\ timelineShown
    /\ currentPage # 1
    /\ Navigate(Max2(currentPage - 1, 1))

\* setCurrentPage(prev => Math.min(prev + 1, totalPages))
goToNextPage ==
    /\ timelineShown
    /\ currentPage # totalPages
    /\ Navigate(Min2(currentPage + 1, totalPages))

\* setCurrentPage(totalPages)
goToLastPage ==
    /\ timelineShown
    /\ currentPage # totalPages
    /\ Navigate(totalPages)

-----------------------------------------------------------------------------
(* MUIScrobbleTimeline: the page input.  typedPage is <<>> while nothing has  *)
(* been typed, else <<text>> with the text onChange received last.            *)

\* a text is blank (nothing a number can be read from) or the numeral of n
Blank      == [digits |-> FALSE, n |-> 0]
Numeral(n) == [digits |-> TRUE, n |-> n]

\* the texts the user types into the page input
TypedTexts == {Blank, Numeral(0), Numeral(2), Numeral(LongLen)}

\* parseInt(e.target.value): a number, or NaN
parseInt(text) ==
    IF text.digits THEN [nan |-> FALSE, num |-> text.n] ELSE [nan |-> TRUE, num |-> 0]

\* const goToPage = (page: number) => setCurrentPage(page)
goToPage(page) == currentPage' = page

\* onChange: the page is set when the text reads as a number of [1, totalPages];
\* any other text sets nothing, and the input, which is controlled by
\* value={currentPage}, shows currentPage again
PageInputChange(text) ==
    /\ timelineShown
    /\ LET value == parseInt(text)
       IN  IF ~value.nan /\ value.num >= 1 /\ value.num <= totalPages
           THEN goToPage(value.num)
           ELSE UNCHANGED currentPage
    /\ typedPage' = <<text>>
    /\ UNCHANGED <<hookVars, pickerVars, layoutVars, now, scrollVars>>

\* onBlur: e.target.value is the text the input shows, the numeral of
\* currentPage (value={currentPage}); it is clamped when it lies outside
\* [1, totalPages]
PageInputBlur ==
    /\ timelineShown
    /\ LET value == parseInt(Numeral(currentPage))
       IN  IF value.nan \/ value.num < 1 THEN goToPage(1)
           ELSE IF value.num > totalPages THEN goToPage(totalPages)
           ELSE UNCHANGED currentPage
    /\ typedPage' = <<>>
    /\ UNCHANGED <<hookVars, pickerVars, layoutVars, now, scrollVars>>

-----------------------------------------------------------------------------
(* MUIScrobbleTimeline: hover and click on the items of the visible page *)

\* the rows of the visible page the user points at
PickedRows == {1}

Pickable == {currentItems[k] : k \in PickedRows \cap (1..Len(currentItems))}

\* onMouseEnter={() => onScrobbleHover(scrobble)}
MouseEnter(scrobble) ==
    /\ timelineShown
    /\ scrobble \in Pickable
    /\ hoveredScrobble' = scrobble
    /\ UNCHANGED <<timeRange, loading, error, scrobbles, selectedScrobble, fetches,
                   currentPage, pickerVars, layoutVars, envVars>>

\* onMouseLeave={() => onScrobbleHover(null)}
MouseLeave ==
    /\ timelineShown
    /\ hoveredScrobble # NoScrobble
    /\ \E k \in 1..Len(currentItems) : currentItems[k] = hoveredScrobble
    /\ hoveredScrobble' = NoScrobble
    /\ UNCHANGED <<timeRange, loading, error, scrobbles, selectedScrobble, fetches,
                   currentPage, pickerVars, layoutVars, envVars>>

\* onClick={() => onScrobbleSelect(scrobble)}
Click(scrobble) ==
    /\ timelineShown
    /\ scrobble \in Pickable
    /\ selectedScrobble' = scrobble
    /\ UNCHANGED <<timeRange, loading, error, scrobbles, hoveredScrobble, fetches,
                   currentPage, pickerVars, layoutVars, envVars>>

\* a scrobble that is in no list
StaleScrobble == Scrobble(1000 + LongLen, Now)

-----------------------------------------------------------------------------
(* The timeline view as a whole *)

Next ==
    \/ \E days \in ClickedRanges : handleRangeClick(days)
    \/ \E date \in PickedDates : handleStartDateChange(date)
    \/ \E date \in PickedDates : handleEndDateChange(date)
    \/ \E i \in DOMAIN fetches : FetchPosted(i)
    \/ \E i \in DOMAIN fetches : UserFound(i)
    \/ \E i \in DOMAIN fetches, data \in Responses : ScrobblesLoaded(i, data)
    \/ \E i \in DOMAIN fetches, message \in {NetworkError, UserNotFound} :
            FetchFailed(i, message)
    \/ goToFirstPage
    \/ goToPreviousPage
    \/ goToNextPage
    \/ goToLastPage
    \/ \E scrobble \in Pickable : MouseEnter(scrobble)
    \/ MouseLeave
    \/ \E scrobble \in Pickable : Click(scrobble)

Spec == Init /\ [][Next]_vars

-----------------------------------------------------------------------------
(* ScrobbleTimeline: width and positions.  A JavaScript number is modelled as *)
(* a fraction num/den with den > 0, or as NaN.                                *)

MIN_SCROBBLE_WIDTH == 60
MIN_TIMELINE_WIDTH == 800
WIDTH_PER_DAY == 200

Finite(n, d) == [nan |-> FALSE, num |-> n, den |-> d]
NaN          == [nan |-> TRUE, num |-> 0, den |-> 1]

differenceInDays_RoundedUp(left, right) == -TruncDiv(-(left - right) - DayMs + 1, DayMs)

\* differenceInDays(left, right): full days between the two, truncated towards zero
differenceInDays(left, right) == TruncDiv(left - right, DayMs)

\* differenceInMilliseconds(left, right)
differenceInMilliseconds(left, right) == left - right

\* Math.max(0, Math.min(1, a / b)) for integers a and b: with b = 0 the quotient
\* is NaN (a = 0), Infinity (a > 0) or -Infinity (a < 0); NaN passes through
\* Math.min and Math.max
ClampedQuotient(a, b) ==
    IF b = 0
    THEN IF a = 0 THEN NaN ELSE IF a > 0 THEN Finite(1, 1) ELSE Finite(0, 1)
    ELSE LET n == IF b > 0 THEN a ELSE -a
             d == IF b > 0 THEN b ELSE -b
         IN  IF n <= 0 THEN Finite(0, 1)
             ELSE IF n >= d THEN Finite(1, 1)
             ELSE Finite(n, d)

\* x * width
Times(x, width) == IF x.nan THEN NaN ELSE Finite(x.num * width, x.den)

daysInRangeOf(range) == differenceInDays(range.end, range.start) + 1

calculateTimelineWidth_NoExtraDay(list, range) ==
    Max2(Max2(Len(list) * MIN_SCROBBLE_WIDTH,
              differenceInDays(range.end, range.start) * WIDTH_PER_DAY),
         MIN_TIMELINE_WIDTH)

\* Math.max(minWidthForScrobbles, widthBasedOnDays, MIN_TIMELINE_WIDTH)
calculateTimelineWidth(list, range) ==
    LET minWidthForScrobbles == Len(list) * MIN_SCROBBLE_WIDTH
        daysInRange          == differenceInDays(range.end, range.start) + 1
        widthBasedOnDays     == daysInRange * WIDTH_PER_DAY
    IN  Max2(Max2(minWidthForScrobbles, widthBasedOnDays), MIN_TIMELINE_WIDTH)

positionScrobbles_FromEnd(list, range, width) ==
    [k \in 1..Len(list) |->
        [id |-> list[k].id,
         listened_at |-> list[k].listened_at,
         position |-> Times(ClampedQuotient(range.end - list[k].listened_at,
                                            range.end - range.start), width)]]

\* scrobbles.map(scrobble => ({...scrobble, position}))
positionScrobbles(list, range, width) ==
    LET timeRangeMs == differenceInMilliseconds(range.end, range.start)
    IN  [k \in 1..Len(list) |->
            LET msFromStart == differenceInMilliseconds(list[k].listened_at, range.start)
                positionPercentage == ClampedQuotient(msFromStart, timeRangeMs)
            IN  [id |-> list[k].id,
                 listened_at |-> list[k].listened_at,
                 position |-> Times(positionPercentage, width)]]

intervalHoursOf_WeekExcluded(daysInRange) ==
    IF daysInRange <= 1 THEN 1
    ELSE IF daysInRange < 7 THEN 6
    ELSE IF daysInRange <= 31 THEN 24
    ELSE 24 * 7

\* the if / else if chain on daysInRange
intervalHoursOf(daysInRange) ==
    IF daysInRange <= 1 THEN 1
    ELSE IF daysInRange <= 7 THEN 6
    ELSE IF daysInRange <= 31 THEN 24
    ELSE 24 * 7

intervalHours_NoExtraDay(range) ==
    intervalHoursOf(differenceInDays(range.end, range.start))

\* const daysInRange = differenceInDays(timeRange.end, timeRange.start) + 1
intervalHours(range) == intervalHoursOf(differenceInDays(range.end, range.start) + 1)

\* the while loop: one marker for currentDate, then currentDate moves on by the
\* interval, as long as currentDate <= timeRange.end
RECURSIVE markersFrom(_, _, _)
markersFrom(currentDate, range, width) ==
    IF currentDate <= range.end
    THEN LET timeRangeMs == differenceInMilliseconds(range.end, range.start)
             msFromStart == differenceInMilliseconds(currentDate, range.start)
             positionPercentage == ClampedQuotient(msFromStart, timeRangeMs)
         IN  <<[position |-> Times(positionPercentage, width), date |-> currentDate]>>
             \o markersFrom(currentDate + intervalHours(range) * HourMs, range, width)
    ELSE <<>>

generateTimeMarkers(range, width) == markersFrom(range.start, range, width)

\* timelineElement.clientWidth: the width of the scroll container on screen
clientWidth == 800

\* Math.max(0, position - clientWidth / 2); NaN passes through Math.max
centredScrollPosition(position) ==
    IF position.nan THEN NaN
    ELSE IF 2 * position.num - clientWidth * position.den <= 0 THEN Finite(0, 1)
    ELSE Finite(2 * position.num - clientWidth * position.den, 2 * position.den)

\* ScrobbleTimeline: if (selectedScrobble) scrollToScrobble(selectedScrobble);
\* the result is where the container is scrolled to afterwards
timelineScrollAfter(scrobble, positioned) ==
    IF scrobble = NoScrobble THEN scrollLeft
    ELSE LET k == findIndex(positioned, scrobble.id)
         IN  IF k = 0 THEN scrollLeft
             ELSE centredScrollPosition(positioned[k].position)

\* listRef.current.querySelectorAll('tr'): the header row, then one row for each
\* scrobble; no table when the list is empty
rowsLength(list) == IF Len(list) > 0 THEN Len(list) + 1 ELSE 0

\* the scrobble the row rows[r] displays, r counted from 0; none for the header
rowShows(list, r) == IF r >= 1 /\ r <= Len(list) THEN list[r] ELSE NoScrobble

\* ScrobbleList: if (selectedScrobble) scrollToScrobble(selectedScrobble); the
\* result is the row scrolled into view afterwards, rows[index] with index
\* counted from 0
listScrollAfter(scrobble, list) ==
    IF scrobble = NoScrobble THEN scrolledRow
    ELSE LET index == findIndex(list, scrobble.id) - 1
         IN  IF index = -1 THEN scrolledRow
             ELSE IF index >= rowsLength(list) THEN scrolledRow
             ELSE index

\* useEffect(() => {...}, [scrobbles, timeRange]), and the scroll effect of
\* [selectedScrobble, positionedScrobbles] that follows it
LayoutEffect ==
    /\ effectPending
    /\ timelineWidth' = calculateTimelineWidth(scrobbles, timeRange)
    /\ positionedScrobbles' =
            positionScrobbles(scrobbles, timeRange,
                              calculateTimelineWidth(scrobbles, timeRange))
    /\ timeMarkers' =
            generateTimeMarkers(timeRange, calculateTimelineWidth(scrobbles, timeRange))
    /\ effectPending' = FALSE
    /\ scrollLeft' =
            timelineScrollAfter(selectedScrobble,
                positionScrobbles(scrobbles, timeRange,
                                  calculateTimelineWidth(scrobbles, timeRange)))
    /\ UNCHANGED <<hookVars, currentPage, pickerVars, now, typedPage, scrolledRow>>

-----------------------------------------------------------------------------
(* The two timeline components on their own: rendered with a list and a range *)
(* from PropLists and PropRanges, first render done, layout effect pending    *)

\* range lengths: whole days and one tick less, from a reversed range of one
\* tick and the empty range up to MaxSpanDays days
PropSpans == {d * DayMs - e : d \in 0..MaxSpanDays, e \in {0, 1}}

\* those, the ranges the clicked presets give, and a range of 32 days
PropRanges ==
    {[start |-> startOfDay(Now) - MaxSpanDays * DayMs,
      end   |-> startOfDay(Now) - MaxSpanDays * DayMs + span] : span \in PropSpans}
    \cup {[start |-> startOfDay(Now - days * DayMs), end |-> endOfDay(Now)] :
            days \in ClickedRanges}
    \cup {[start |-> startOfDay(Now) - 32 * DayMs, end |-> startOfDay(Now)]}

PropCounts == (0..MaxEvents) \cup {itemsPerPage, itemsPerPage + 1, 2 * itemsPerPage,
                                    2 * itemsPerPage + 1, LongLen}

\* n scrobbles, newest first, the oldest at `oldest`, `gap` apart
ScrobbleList(n, oldest, gap) == [k \in 1..n |-> Scrobble(k, oldest + (n - k) * gap)]

PropLists(range) ==
    {ScrobbleList(n, oldest, gap) :
        n \in PropCounts,
        oldest \in {range.start - DayMs, range.start, range.end},
        gap \in {0, 6 * HourMs}}

ComponentInit ==
    /\ timeRange \in PropRanges
    /\ scrobbles \in PropLists(timeRange)
    /\ loading = FALSE
    /\ error = Null
    /\ selectedScrobble = NoScrobble
    /\ hoveredScrobble = NoScrobble
    /\ fetches = <<>>
    /\ currentPage = 1
    /\ startDate = timeRange.start
    /\ endDate = timeRange.end
    /\ timelineWidth = 0
    /\ positionedScrobbles = <<>>
    /\ timeMarkers = <<>>
    /\ scrollLeft = [nan |-> FALSE, num |-> 0, den |-> 1]
    /\ scrolledRow = -1
    /\ effectPending = TRUE
    /\ now = Now
    /\ typedPage = <<>>

\* const [hoveredScrobble, setHoveredScrobble] = useState(null): the setter the
\* hook returns, handed to the components as onScrobbleHover and called with a
\* scrobble on entering its marker or row and with null on leaving it
setHoveredScrobble(scrobble) ==
    /\ hoveredScrobble' = scrobble
    /\ UNCHANGED <<timeRange, loading, error, scrobbles, selectedScrobble, fetches,
                   currentPage, pickerVars, layoutVars, envVars>>

\* the scrobble hovered: the first of the list, or none
HoverRequests ==
    {scrobbles[k] : k \in {1} \cap (1..Len(scrobbles))} \cup {NoScrobble}

setSelectedScrobble_RunsLayout(scrobble) ==
    /\ selectedScrobble' = scrobble
    /\ scrollLeft' = timelineScrollAfter(scrobble, positionedScrobbles)
    /\ scrolledRow' = listScrollAfter(scrobble, scrobbles)
    /\ effectPending' = TRUE
    /\ UNCHANGED <<timeRange, loading, error, scrobbles, hoveredScrobble, fetches,
                   currentPage, pickerVars, timelineWidth, positionedScrobbles,
                   timeMarkers, now, typedPage>>

\* const [selectedScrobble, setSelectedScrobble] = useState(null): the setter the
\* hook returns, called with any scrobble; the scroll effects of ScrobbleTimeline
\* and ScrobbleList follow the render
setSelectedScrobble(scrobble) ==
    /\ selectedScrobble' = scrobble
    /\ scrollLeft' = timelineScrollAfter(scrobble, positionedScrobbles)
    /\ scrolledRow' = listScrollAfter(scrobble, scrobbles)
    /\ UNCHANGED <<timeRange, loading, error, scrobbles, hoveredScrobble, fetches,
                   currentPage, pickerVars, layoutVars, now, typedPage>>

\* the parent renders the timeline again with the first page of its list only
RenderWith(list) ==
    /\ Len(scrobbles) > itemsPerPage
    /\ scrobbles' = list
    /\ currentPage' = PageAfter(timelineShown, Shown(loading, error, list), currentPage)
    /\ effectPending' = TRUE
    /\ UNCHANGED <<timeRange, loading, error, selectedScrobble, hoveredScrobble,
                   fetches, pickerVars, timelineWidth, positionedScrobbles,
                   timeMarkers, envVars>>

\* the scrobbles the parent selects: the first or the last of the list, or one
\* of no list
SelectRequests ==
    {scrobbles[k] : k \in {1, Len(scrobbles)} \cap (1..Len(scrobbles))}
        \cup {StaleScrobble}

\* ScrobbleTimeline and ScrobbleList
ComponentNext ==
    \/ LayoutEffect
    \/ RenderWith(SubSeq(scrobbles, 1, itemsPerPage))
    \/ \E scrobble \in SelectRequests : setSelectedScrobble(scrobble)
    \/ \E scrobble \in HoverRequests : setHoveredScrobble(scrobble)

ComponentSpec == ComponentInit /\ [][ComponentNext]_vars

-----------------------------------------------------------------------------
(* MUIScrobbleTimeline on its own: rendered with a list of each length of     *)
(* PropCounts                                                                 *)

PagerInit ==
    /\ timeRange = defaultTimeRange
    /\ scrobbles \in {ScrobbleList(n, timeRange.start, HourMs) : n \in PropCounts}
    /\ loading = FALSE
    /\ error = Null
    /\ selectedScrobble = NoScrobble
    /\ hoveredScrobble = NoScrobble
    /\ fetches = <<>>
    /\ currentPage = 1
    /\ startDate = timeRange.start
    /\ endDate = timeRange.end
    /\ timelineWidth = 0
    /\ positionedScrobbles = <<>>
    /\ timeMarkers = <<>>
    /\ scrollLeft = [nan |-> FALSE, num |-> 0, den |-> 1]
    /\ scrolledRow = -1
    /\ effectPending = TRUE
    /\ now = Now
    /\ typedPage = <<>>

PagerNext ==
    \/ goToFirstPage
    \/ goToPreviousPage
    \/ goToNextPage
    \/ goToLastPage
    \/ \E text \in TypedTexts : PageInputChange(text)
    \/ PageInputBlur
    \/ RenderWith(SubSeq(scrobbles, 1, itemsPerPage))

PagerSpec == PagerInit /\ [][PagerNext]_vars

-----------------------------------------------------------------------------
(* TimeRangeSelector: the selector with preset buttons and plain date inputs *)

\* the days the user picks in a date picker or enters in a date input
PickedDays == {Today - 9, Today - 1, Today, Today + 1}

\* the Dayjs value a date picker hands over for a day: that day, at the time of
\* day of the session start
DayjsOfDay(day) == day * DayMs + NowHour * HourMs

\* new Date("yyyy-MM-dd"): midnight of that day (the time zone is taken as UTC)
DateOfDay(day) == day * DayMs

\* createTimeRange(days, weeks): end = endOfDay(new Date()), start =
\* startOfDay(subDays(end, days)) or startOfDay(subWeeks(end, weeks)), one week
\* when both are 0
createTimeRange(days, weeks) ==
    LET end   == endOfDay(now)
        start == IF days # 0 THEN startOfDay(end - days * DayMs)
                 ELSE IF weeks # 0 THEN startOfDay(end - weeks * 7 * DayMs)
                 ELSE startOfDay(end - 7 * DayMs)
    IN  [start |-> start, end |-> end]

\* the buttons clicked: Last 24 Hours, Last Week, Last 2 Weeks, as <<days, weeks>>
PresetButtons == {<<1, 0>>, <<0, 1>>, <<0, 2>>}

handlePresetClick(days, weeks) ==
    setTimeRange(createTimeRange(days, weeks))

\* handleDateChange(event, isStart): the date replaces one endpoint as it is
handleDateChange(day, isStart) ==
    LET newDate == DateOfDay(day)
    IN  setTimeRange([start |-> IF isStart THEN newDate ELSE timeRange.start,
                      end   |-> IF isStart THEN timeRange.end ELSE newDate])

-----------------------------------------------------------------------------
(* MUITimeRangeSelector: which preset button is shown as active *)

Abs(x) == IF x >= 0 THEN x ELSE -x

\* isRangeActive(days): both endpoints less than 86400000 ms from the preset's
isRangeActive(days) ==
    LET today        == endOfDay(now)
        pastDate     == startOfDay(today - days * DayMs)
        startMatches == Abs(timeRange.start - pastDate) < DayMs
        endMatches   == Abs(timeRange.end - today) < DayMs
    IN  startMatches /\ endMatches

-----------------------------------------------------------------------------
(* The hook with both range selectors, while the clock advances: every way   *)
(* the code has to edit the range.  The fetches started stay in flight.      *)

MaxTicks == 2                  \* advances of the clock in one behaviour
ClockStep == 6 * HourMs

ClockAdvance ==
    /\ now - Now < MaxTicks * ClockStep
    /\ now' = now + ClockStep
    /\ UNCHANGED <<hookVars, currentPage, pickerVars, layoutVars, typedPage, scrollVars>>

\* useScrobbleTimeline(username, initialTimeRange): the default range, or a
\* custom range of two days
InitialRanges ==
    { defaultTimeRange,
      [start |-> startOfDay(Now - 2 * DayMs), end |-> endOfDay(Now - DayMs)] }

RangeInit ==
    /\ timeRange \in InitialRanges
    /\ loading = TRUE
    /\ error = Null
    /\ scrobbles = <<>>
    /\ selectedScrobble = NoScrobble
    /\ hoveredScrobble = NoScrobble
    /\ fetches = <<Fetch(timeRange)>>
    /\ currentPage = 1
    /\ startDate = timeRange.start
    /\ endDate = timeRange.end
    /\ timelineWidth = 0
    /\ positionedScrobbles = <<>>
    /\ timeMarkers = <<>>
    /\ scrollLeft = [nan |-> FALSE, num |-> 0, den |-> 1]
    /\ scrolledRow = -1
    /\ effectPending = FALSE
    /\ now = Now
    /\ typedPage = <<>>

RangeNext ==
    \/ \E days \in timeRanges : handleRangeClick(days)
    \/ \E day \in PickedDays : handleStartDateChange(DayjsOfDay(day))
    \/ \E day \in PickedDays : handleEndDateChange(DayjsOfDay(day))
    \/ \E button \in PresetButtons : handlePresetClick(button[1], button[2])
    \/ \E day \in PickedDays, isStart \in BOOLEAN : handleDateChange(day, isStart)
    \/ ClockAdvance

RangeSpec == RangeInit /\ [][RangeNext]_vars

-----------------------------------------------------------------------------
(* Properties of the timeline view *)

Resolves(i)  == InFlight(i) /\ fetches'[i].pc = "ok"
Fails(i)     == InFlight(i) /\ fetches'[i].pc = "failed"

IdsOf(list) == {list[k].id : k \in 1..Len(list)}

\* no two entries have the same id
NoSharedId(list) == Cardinality(IdsOf(list)) = Len(list)

\* every entry is at least as recent as the next one
NewestFirst(list) ==
    \A k \in 1..(Len(list) - 1) : list[k].listened_at >= list[k + 1].listened_at

\* C1: latest request wins: whenever the response of a fetch is applied to the
\* displayed list, the range it was fetched for is the current range.
C1_LatestRequestWins ==
    [][\A i \in DOMAIN fetches : Resolves(i) => fetches[i].range = timeRange']_vars

\* C2: handling a fetch failure sets an error message and by itself changes
\* neither the event list, nor the current page, nor the hovered or selected
\* scrobble.
C2_FailureKeepsDisplayedState ==
    [][\A i \in DOMAIN fetches : Fails(i) =>
            /\ error' # Null
            /\ scrobbles' = scrobbles
            /\ currentPage' = currentPage
            /\ selectedScrobble' = selectedScrobble
            /\ hoveredScrobble' = hoveredScrobble]_vars

\* C3: whenever the timeline is displayed, 1 <= currentPage <= totalPages.
C3_PageWithinTotal ==
    timelineShown => (1 <= currentPage /\ currentPage <= totalPages)

\* C4: once every fetch has resolved successfully, the displayed event list is
\* the result of the fetch issued for the current range (the one started last),
\* in whatever order the responses arrived.
C4_ListOfCurrentRange ==
    (\A i \in DOMAIN fetches : fetches[i].pc = "ok") =>
        scrobbles = StoredFor[fetches[Len(fetches)].data]

\* C5: the failure of a fetch whose range is no longer the current range
\* leaves the error state as it was.
C5_StaleFailureSilent ==
    [][\A i \in DOMAIN fetches :
            (Fails(i) /\ fetches[i].range # timeRange) => error' = error]_vars

\* C6: the stored event list has no two entries with the same id, is sorted by
\* timestamp descending, and keeps every id of the response it came from
\* exactly once.
C6_StoredUniqueNewestFirst ==
    /\ NoSharedId(scrobbles)
    /\ NewestFirst(scrobbles)
    /\ \/ scrobbles = <<>>
       \/ \E i \in DOMAIN fetches :
            fetches[i].pc = "ok" /\ IdsOf(scrobbles) = IdsOf(fetches[i].data)

\* C6 witness: the response with repeated ids and unsorted entries was stored
C6_Witness ==
    /\ \E i \in DOMAIN fetches : fetches[i].pc = "ok" /\ fetches[i].data = DupResponse
    /\ scrobbles = << Scrobble(2, Now - 2 * HourMs), Scrobble(3, Now - 2 * HourMs),
                      Scrobble(1, Now - 5 * HourMs) >>

\* C10: first, previous, next and last leave currentPage within [1, totalPages].
C10_NavigationWithinTotal ==
    [][(goToFirstPage \/ goToPreviousPage \/ goToNextPage \/ goToLastPage) =>
            (1 <= currentPage' /\ currentPage' <= totalPages')]_vars

-----------------------------------------------------------------------------
(* Properties of the components on their own (ComponentSpec, PagerSpec) *)

Max3(a, b, c) == Max2(Max2(a, b), c)

\* floor((end - start) in whole days) + 1
WholeDaysPlusOne(range) == ((range.end - range.start) \div DayMs) + 1

\* C7: once the layout effect has run on a range with start <= end,
\* timelineWidth = max(n * 60, days_in_range * 200, 800) with
\* days_in_range = floor((end - start) in whole days) + 1; 10 events over a
\* range of 7 days_in_range give width 1400.
C7_WidthFormula ==
    (~effectPending /\ timeRange.start <= timeRange.end) =>
        /\ timelineWidth =
                Max3(Len(scrobbles) * 60, WholeDaysPlusOne(timeRange) * 200, 800)
        /\ (Len(scrobbles) = 10 /\ WholeDaysPlusOne(timeRange) = 7) =>
                timelineWidth = 1400

\* C7 witness: the layout has run for 10 events over 7 days_in_range
C7_Witness ==
    /\ ~effectPending
    /\ Len(scrobbles) = 10
    /\ daysInRangeOf(timeRange) = 7
    /\ timelineWidth = 1400

\* C8: every computed offset is a number with 0 <= offset <= timelineWidth, and
\* for a zero-length range (end = start) every offset is 0.
C8_OffsetWithinWidth ==
    ~effectPending =>
        \A k \in 1..Len(positionedScrobbles) :
            LET position == positionedScrobbles[k].position
            IN  /\ ~position.nan
                /\ 0 <= position.num
                /\ position.num <= timelineWidth * position.den
                /\ timeRange.end = timeRange.start => position.num = 0

\* C9: totalPages is ceil(n / 25) for a list of n > 0 entries and 1 for n = 0.
C9_TotalPages ==
    LET n == Len(scrobbles)
    IN  IF n = 0
        THEN totalPages = 1
        ELSE totalPages * 25 >= n /\ (totalPages - 1) * 25 < n

\* C11: when the entry of a page number p in the page input ends, an
\* out-of-range p has been clamped: p > totalPages gives currentPage =
\* totalPages, and p < 1 or a text that is no number gives currentPage = 1.
C11_OutOfRangePageClamped ==
    [][(typedPage # <<>> /\ typedPage' = <<>>) =>
            LET p == parseInt(typedPage[1])
            IN  /\ (p.nan \/ p.num < 1) => currentPage' = 1
                /\ (~p.nan /\ p.num > totalPages) => currentPage' = totalPages]_vars

\* the pages of a list, and the length of each
PagesOf(list) == 1..totalPagesOf(list)
PageLen(list, p) == Len(currentItemsOf(list, p))

\* C12: the visible slice of page p holds the entries (p-1)*25 .. p*25 - 1 of
\* the list (counted from 0), so that the slices of pages 1..totalPages are
\* contiguous, disjoint and together the whole list; every page but the last
\* has 25 entries and the last has n - 25*(totalPages - 1); 60 entries give
\* pages of 25, 25 and 10.
C12_PagesPartitionList ==
    LET n == Len(scrobbles)
    IN  /\ \A k \in 1..n :
            LET p == ((k - 1) \div 25) + 1
                j == ((k - 1) % 25) + 1
            IN  /\ p \in PagesOf(scrobbles)
                /\ j <= PageLen(scrobbles, p)
                /\ currentItemsOf(scrobbles, p)[j] = scrobbles[k]
        /\ \A p \in PagesOf(scrobbles) :
            PageLen(scrobbles, p) =
                IF p < totalPages THEN 25 ELSE n - 25 * (totalPages - 1)
        /\ n = 60 => /\ totalPages = 3
                     /\ <<PageLen(scrobbles, 1), PageLen(scrobbles, 2),
                          PageLen(scrobbles, 3)>> = <<25, 25, 10>>

\* C12 witness: the last page of a list of 60 entries is visible
C12_Witness ==
    /\ Len(scrobbles) = 60
    /\ currentPage = 3
    /\ Len(currentItems) = 10
    /\ currentItems[10] = scrobbles[60]

\* C13: a select of a scrobble whose id is not in the current list leaves the
\* selection empty.
C13_SelectAbsentClears ==
    [][(selectedScrobble' # selectedScrobble
            /\ selectedScrobble'.id \notin IdsOf(scrobbles'))
        => selectedScrobble' = NoScrobble]_vars

\* C14: the selected scrobble is always empty or an entry of the current list,
\* and so is the hovered one: a new list leaves no stale selection or hover.
C14_SelectionInList ==
    /\ selectedScrobble = NoScrobble \/ selectedScrobble.id \in IdsOf(scrobbles)
    /\ hoveredScrobble = NoScrobble \/ hoveredScrobble.id \in IdsOf(scrobbles)

-----------------------------------------------------------------------------
(* Properties of the range (RangeSpec) *)

\* a custom edit of the start, and of the end, through either selector
StartEdit(day) == handleStartDateChange(DayjsOfDay(day)) \/ handleDateChange(day, TRUE)
EndEdit(day)   == handleEndDateChange(DayjsOfDay(day)) \/ handleDateChange(day, FALSE)

\* the edit was accepted: the hook was given a range
Accepted == fetches' # fetches

\* first and last instant of a day
FirstOfDay(day) == day * DayMs
LastOfDay(day)  == (day + 1) * DayMs - 1

\* C15: a custom edit that would make start > end is rejected in place:
\* setting the start to a day that begins after the end, or the end to a day
\* that ends before the start, leaves the range as it was and starts no fetch.
C15_InvalidEditRejected ==
    [][\A day \in PickedDays :
            /\ (StartEdit(day) /\ FirstOfDay(day) > timeRange.end) =>
                    (timeRange' = timeRange /\ fetches' = fetches)
            /\ (EndEdit(day) /\ LastOfDay(day) < timeRange.start) =>
                    (timeRange' = timeRange /\ fetches' = fetches)]_vars

\* C16: in every state reached from the default range by presets and custom
\* edits of either selector, start <= end.
C16_StartNotAfterEnd ==
    fetches[1].range = defaultTimeRange => timeRange.start <= timeRange.end

\* C17: the end an accepted edit of the end date produces is never later than
\* the current instant.
C17_EndNotAfterNow ==
    [][\A day \in PickedDays :
            (handleEndDateChange(DayjsOfDay(day)) /\ Accepted) =>
                timeRange'.end <= now']_vars

\* C18: after an accepted custom edit the edited endpoint is a day boundary:
\* a start is the first instant of the day entered, an end the last one.
C18_EditedEndpointOnDayBoundary ==
    [][\A day \in PickedDays :
            /\ (StartEdit(day) /\ Accepted) => timeRange'.start = FirstOfDay(day)
            /\ (EndEdit(day) /\ Accepted) => timeRange'.end = LastOfDay(day)]_vars

\* the range of preset n at instant t
CanonicalRange(n, t) ==
    [start |-> FirstOfDay((t \div DayMs) - n), end |-> LastOfDay(t \div DayMs)]

\* C19: a preset of n days sets the range to start-of-day(today - n days) ..
\* end-of-day(today), whatever the range was before.
C19_PresetRange ==
    [][/\ \A days \in timeRanges :
            handleRangeClick(days) => timeRange' = CanonicalRange(days, now)
       /\ \A button \in PresetButtons :
            handlePresetClick(button[1], button[2]) =>
                timeRange' = CanonicalRange(button[1] + 7 * button[2], now)]_vars

\* C19 witness: the 90 days preset was applied to the custom range of two days
C19_Witness ==
    /\ Len(fetches) = 2
    /\ fetches[1].range = [start |-> startOfDay(Now - 2 * DayMs),
                            end |-> endOfDay(Now - DayMs)]
    /\ timeRange = [start |-> startOfDay(now) - 90 * DayMs, end |-> endOfDay(now)]

\* C20: while less than a day has passed since preset n was applied and the
\* range is still the one it set, isPresetActive(n) is true.
C20_PresetActiveAfterPreset ==
    \A days \in timeRanges :
        \A t \in (now - DayMs + 1)..now :
            timeRange = CanonicalRange(days, t) => isRangeActive(days)

-----------------------------------------------------------------------------
(* Properties of the layout, of the selection and of the hook's flags *)

\* C21: the range the hook starts with is that of the 7 days preset:
\* start-of-day(today - 7 days) .. end-of-day(today).
C21_DefaultIsSevenDayPreset ==
    fetches[1].range = CanonicalRange(7, Now)

\* the marker interval of the table, in hours, for days_in_range = d
TableInterval(d) ==
    CASE d <= 1 -> 1
      [] d >= 2 /\ d <= 7 -> 6
      [] d >= 8 /\ d <= 31 -> 24
      [] OTHER -> 7 * 24

\* consecutive markers are `hours` hours apart
MarkersApart(hours) ==
    \A k \in 1..(Len(timeMarkers) - 1) :
        timeMarkers[k + 1].date - timeMarkers[k].date = hours * HourMs

DisplayUnchanged ==
    /\ timeRange' = timeRange
    /\ scrobbles' = scrobbles
    /\ currentPage' = currentPage
    /\ timelineWidth' = timelineWidth
    /\ positionedScrobbles' = positionedScrobbles
    /\ timeMarkers' = timeMarkers
    /\ effectPending' = effectPending
    /\ fetches' = fetches
    /\ loading' = loading
    /\ error' = error

\* C23: a hover makes the hovered scrobble the one entered, or none on leaving,
\* and changes nothing else; a select changes only the selected scrobble; neither
\* changes list, range, page, width, offsets or markers nor starts a fetch.
C23_HoverSelectFrame ==
    [][/\ hoveredScrobble' # hoveredScrobble =>
            /\ hoveredScrobble' = NoScrobble \/ hoveredScrobble'.id \in IdsOf(scrobbles)
            /\ selectedScrobble' = selectedScrobble
            /\ DisplayUnchanged
       /\ selectedScrobble' # selectedScrobble =>
            (hoveredScrobble' = hoveredScrobble /\ DisplayUnchanged)]_vars

\* C23 witness: one scrobble is selected while another one is hovered
C23_Witness ==
    /\ selectedScrobble # NoScrobble
    /\ hoveredScrobble # NoScrobble
    /\ hoveredScrobble # selectedScrobble

\* a position is a number within [0, width]
WithinWidth(position, width) ==
    /\ ~position.nan
    /\ 0 <= position.num
    /\ position.num <= width * position.den

\* C24: for start <= end the markers are at start, start + interval, ... up to
\* end: floor((end - start) / interval) + 1 of them, the first at start with
\* offset 0, instants strictly increasing and none after end, every offset
\* within [0, timelineWidth].
C24_MarkerSequence ==
    (~effectPending /\ timeRange.start <= timeRange.end) =>
        LET step == TableInterval(WholeDaysPlusOne(timeRange)) * HourMs
        IN  /\ Len(timeMarkers) = ((timeRange.end - timeRange.start) \div step) + 1
            /\ timeMarkers[1].date = timeRange.start
            /\ timeMarkers[1].position = Finite(0, 1)
            /\ \A k \in 1..Len(timeMarkers) :
                    /\ timeMarkers[k].date = timeRange.start + (k - 1) * step
                    /\ timeMarkers[k].date <= timeRange.end
                    /\ WithinWidth(timeMarkers[k].position, timelineWidth)

\* the markers are laid out and the list has 3 entries
ThreeEventsLaidOut == ~effectPending /\ Len(scrobbles) = 3

PresentSelected ==
    /\ ~effectPending
    /\ selectedScrobble # NoScrobble
    /\ selectedScrobble.id \in IdsOf(scrobbles)

\* the stored offset of the selected scrobble
SelectedOffset ==
    positionedScrobbles[findIndex(positionedScrobbles, selectedScrobble.id)].position

\* C26: with a scrobble of the current list selected, the timeline is scrolled
\* to that scrobble's stored offset minus half the viewport, never below 0,
\* and the list is scrolled to the row that displays that scrobble.
C26_LocateTarget ==
    PresentSelected =>
        /\ ~SelectedOffset.nan =>
                LET twice == 2 * SelectedOffset.num - clientWidth * SelectedOffset.den
                IN  scrollLeft = IF twice <= 0 THEN Finite(0, 1)
                                 ELSE Finite(twice, 2 * SelectedOffset.den)
        /\ rowShows(scrobbles, scrolledRow).id = selectedScrobble.id

\* C27: loading is true in every state in which a fetch has not yet resolved.
C27_LoadingWhileOutstanding ==
    (\E i \in DOMAIN fetches : InFlight(i)) => loading

\* C28: each date picker of MUITimeRangeSelector shows the day of the
\* corresponding endpoint of the current range.
C28_PickersShowRange ==
    /\ startOfDay(startDate) = startOfDay(timeRange.start)
    /\ startOfDay(endDate) = startOfDay(timeRange.end)

\* C29: for the range of preset n the layout computes days_in_range = n + 1
\* and a width of at least (n + 1) * 200; for Last 7 Days that is
\* days_in_range 8, a width of at least 1600 and markers 24 hours apart.
C29_PresetDaysInRange ==
    /\ \A n \in timeRanges : daysInRangeOf(CanonicalRange(n, Now)) = n + 1
    /\ \A n \in timeRanges :
            (~effectPending /\ timeRange = CanonicalRange(n, Now)) =>
                /\ timelineWidth >= (n + 1) * 200
                /\ n = 7 => /\ timelineWidth >= 1600
                            /\ intervalHours(timeRange) = 24
                            /\ Len(timeMarkers) = 8
                            /\ MarkersApart(24)

\* C29 witness: the layout has run for the range of Last 7 Days
C29_Witness ==
    /\ ~effectPending
    /\ timeRange = CanonicalRange(7, Now)
    /\ timelineWidth = 1600
    /\ Len(timeMarkers) = 8

\* offset a <= offset b
NotAfter(a, b) ==
    /\ ~a.nan
    /\ ~b.nan
    /\ IF a.den = b.den THEN a.num <= b.num ELSE a.num * b.den <= b.num * a.den

\* C30: the positioned list has the length, ids and order of the event list,
\* and for start < end a scrobble that is not later than another one has an
\* offset that is not greater.
C30_PositionsKeepOrder ==
    ~effectPending =>
        /\ Len(positionedScrobbles) = Len(scrobbles)
        /\ \A k \in 1..Len(scrobbles) :
                /\ positionedScrobbles[k].id = scrobbles[k].id
                /\ positionedScrobbles[k].listened_at = scrobbles[k].listened_at
        /\ timeRange.start < timeRange.end =>
                \A j, k \in 1..Len(scrobbles) :
                    scrobbles[j].listened_at <= scrobbles[k].listened_at =>
                        NotAfter(positionedScrobbles[j].position,
                                 positionedScrobbles[k].position)

\* C30 witness: 10 scrobbles laid out, the newest right of the oldest
C30_Witness ==
    /\ ~effectPending
    /\ Len(positionedScrobbles) = 10
    /\ timeRange.start < timeRange.end
    /\ ~NotAfter(positionedScrobbles[1].position, positionedScrobbles[10].position)

=============================================================================
